---- MODULE Spec2Model ----
(***************************************************************************)
(* Model of the Bedrock Knowledge Base REST facade:                        *)
(*   backend/main.py  the FastAPI application (handlers, request models)   *)
(*   test.py          BedrockKnowledgeBaseClient, the wrapper around boto3 *)
(*                                                                         *)
(* Conventions.                                                            *)
(*  - A Python value that may be missing (a dict key that may be absent,   *)
(*    an Optional field, None) is a sequence of length 0 or 1: None is     *)
(*    <<>> and a present value v is <<v>>.  d.get(k, default) is           *)
(*    Get(d.k, default).                                                   *)
(*  - A dict with a fixed set of possible keys is a record whose fields    *)
(*    are such optional values; the empty dict {} has every field None.    *)
(*  - A query string is represented by its length (the only thing the      *)
(*    code inspects); a model identifier is a sequence of characters.      *)
(*  - A float score is represented by an integer number of hundredths.     *)
(*  - Timestamps (datetime.utcnow()) are left out of the response bodies.  *)
(***************************************************************************)
EXTENDS Integers, Sequences, FiniteSets, TLC

\* ------------------------------------------------------------------ bounds
\* number of inbound HTTP requests that may be in the system together
MaxReq == 2
\* longest retrievalResults list of an upstream retrieve response
MaxRecords == 2
\* most citation groups of an upstream retrieve_and_generate response
MaxGroups == 2
\* most retrievedReferences of one citation group
MaxRefs == 2
\* longest model identifier a request may carry, in characters
MaxArnLen == 3

\* ------------------------------------------------------- optional values
None == <<>>
Some(v) == <<v>>
Get(opt, default) == IF opt = None THEN default ELSE opt[1]
Opt(S) == {None} \cup {Some(v) : v \in S}

\* all sequences over S of length at most n
RECURSIVE SeqUpTo(_, _)
SeqUpTo(S, n) ==
  IF n = 0 THEN {<<>>}
  ELSE LET shorter == SeqUpTo(S, n - 1)
       IN shorter \cup {Append(s, x) : s \in {t \in shorter : Len(t) = n - 1}, x \in S}

\* ------------------------------------------------------ program constants
QueryMinLength == 1
QueryMaxLength == 1000
MaxResultsDefault == 5
MaxResultsGe == 1
SearchMaxResultsLe == 20
SummarizeMaxResultsLe == 10

Placeholder == "YOUR_KNOWLEDGE_BASE_ID_HERE"
DefaultKnowledgeBaseId == "DFVMT0Y6LF"
DefaultRegion == "us-west-2"
\* the default model identifier, as characters; "m" stands for the model name
DefaultModelArn == <<"a", "r", "n", "/", "m">>

Endpoints == {"health", "list", "info", "search", "summarize"}
Req == 1 .. MaxReq

VARIABLES
  AWS_REGION,         \* main.py:44
  KNOWLEDGE_BASE_ID,  \* main.py:45
  MODEL_ARN,          \* main.py:46
  bedrock_client,     \* main.py:49-54: TRUE for a client object, FALSE for None
  request,            \* the inbound HTTP requests, by id
  loop                \* the request whose handler occupies the event loop, or 0

vars == <<AWS_REGION, KNOWLEDGE_BASE_ID, MODEL_ARN, bedrock_client, request, loop>>
config == <<AWS_REGION, KNOWLEDGE_BASE_ID, MODEL_ARN, bedrock_client>>

\* ------------------------------------------------------------- responses
\* raise HTTPException(status_code=..., detail=...); detail is the list of the
\* pieces the f-string concatenates
HTTPException(status_code, detail) ==
  [status |-> status_code, detail |-> detail, body |-> None]
\* a handler's return value, serialized with status 200
Ok(body) == [status |-> 200, detail |-> <<>>, body |-> Some(body)]

\* what a handler does before it returns or blocks: answer at once, or issue
\* one call to the external service
Respond(resp) == [respond |-> Some(resp), call |-> None]
Call(params) == [respond |-> None, call |-> Some(params)]

\* ---------------------------------------------------------- request data
\* the query lengths, result counts and identifiers the requests are drawn from
QueryLengths == {0, 3}
MaxResultsValues == {None}
KbOverrides == {None, Some(""), Some("KB2"), Some(Placeholder)}
ModelOverrides == {None}
PathIds == {"KB1"}
Regions == {DefaultRegion}
ConfiguredKbIds == {DefaultKnowledgeBaseId, Placeholder, ""}
ConfiguredModelArns == {DefaultModelArn}

\* a request as it arrives: the JSON body of a POST, the path parameter of
\* GET /knowledge-bases/{id}; fields an endpoint does not read are left None
NoBody ==
  [query |-> 0, max_results |-> None, knowledge_base_id |-> None,
   model_arn |-> None, path_id |-> ""]

Bodies(endpoint) ==
  CASE endpoint = "search" ->
         {[NoBody EXCEPT !.query = q, !.max_results = m, !.knowledge_base_id = k] :
            q \in QueryLengths, m \in MaxResultsValues, k \in KbOverrides}
    [] endpoint = "summarize" ->
         {[NoBody EXCEPT !.query = q, !.max_results = m, !.knowledge_base_id = k,
                         !.model_arn = a] :
            q \in QueryLengths, m \in MaxResultsValues, k \in KbOverrides,
            a \in ModelOverrides}
    [] endpoint = "info" -> {[NoBody EXCEPT !.path_id = p] : p \in PathIds}
    [] OTHER -> {NoBody}

\* mutant: max_results is bounded by 100, the range the client's docstring gives
SearchRequest_le_100(raw) ==
  LET max_results == Get(raw.max_results, MaxResultsDefault)
  IN [ok |-> /\ raw.query >= QueryMinLength
             /\ raw.query <= QueryMaxLength
             /\ max_results >= MaxResultsGe
             /\ max_results <= 100,
      query |-> raw.query,
      max_results |-> max_results,
      knowledge_base_id |-> raw.knowledge_base_id,
      model_arn |-> None]

\* class SearchRequest(BaseModel): the parsed model, or a validation error
SearchRequest(raw) ==
  LET max_results == Get(raw.max_results, MaxResultsDefault)
  IN [ok |-> /\ raw.query >= QueryMinLength
             /\ raw.query <= QueryMaxLength
             /\ max_results >= MaxResultsGe
             /\ max_results <= SearchMaxResultsLe,
      query |-> raw.query,
      max_results |-> max_results,
      knowledge_base_id |-> raw.knowledge_base_id,
      model_arn |-> None]

\* class SummarizeRequest(BaseModel)
SummarizeRequest(raw) ==
  LET max_results == Get(raw.max_results, MaxResultsDefault)
  IN [ok |-> /\ raw.query >= QueryMinLength
             /\ raw.query <= QueryMaxLength
             /\ max_results >= MaxResultsGe
             /\ max_results <= SummarizeMaxResultsLe,
      query |-> raw.query,
      max_results |-> max_results,
      knowledge_base_id |-> raw.knowledge_base_id,
      model_arn |-> raw.model_arn]

\* the body validation FastAPI runs before it calls the handler
Valid(endpoint, raw) ==
  CASE endpoint = "search" -> SearchRequest(raw).ok
    [] endpoint = "summarize" -> SummarizeRequest(raw).ok
    [] OTHER -> TRUE

\* mutant: `a if a is not None else b`, an empty string is kept
OrDefault_none_only(a, b) == IF a # None THEN a[1] ELSE b

\* Python's `a or b` on an Optional[str] a: a unless it is None or empty
OrDefault(a, b) == IF a # None /\ Len(a[1]) > 0 THEN a[1] ELSE b

Idle ==
  [pc |-> "idle", endpoint |-> "none", body |-> NoBody, outbound |-> <<>>,
   upstream |-> None, response |-> None]

\* ------------------------------------------------------------------ state
\* module level of main.py: the configuration is read from the environment
\* and the client is constructed, or is None when construction raised
Init ==
  /\ AWS_REGION \in Regions
  /\ KNOWLEDGE_BASE_ID \in ConfiguredKbIds
  /\ MODEL_ARN \in ConfiguredModelArns
  /\ bedrock_client \in BOOLEAN
  /\ request = [r \in Req |-> Idle]
  /\ loop = 0

\* a client sends a request; it waits for the event loop
Receive(r, endpoint, body) ==
  /\ request[r].pc = "idle"
  /\ request' = [request EXCEPT ![r] =
       [Idle EXCEPT !.pc = "received", !.endpoint = endpoint, !.body = body]]
  /\ UNCHANGED <<config, loop>>

\* a handler answers without calling the external service
Answer(r, resp) ==
  /\ request' = [request EXCEPT ![r].pc = "done", ![r].response = Some(resp)]
  /\ UNCHANGED <<config, loop>>

\* mutant: the call is started as a background task that nothing waits for;
\* the handler gives up the event loop and is never resumed
Issue_detached(r, params) ==
  /\ request' = [request EXCEPT ![r].pc = "calling",
                                ![r].outbound = Append(@, params)]
  /\ UNCHANGED <<config, loop>>

\* a handler calls the external service: the call is synchronous, so the
\* handler keeps the event loop until the call returns or raises
Issue(r, params) ==
  /\ request' = [request EXCEPT ![r].pc = "calling",
                                ![r].outbound = Append(@, params)]
  /\ loop' = r
  /\ UNCHANGED config

\* the call of request r came back with `outcome` and the handler ran to its
\* end with response resp
Finish(r, outcome, resp) ==
  /\ request' = [request EXCEPT ![r].pc = "done", ![r].upstream = Some(outcome),
                                ![r].response = Some(resp)]
  /\ loop' = 0
  /\ UNCHANGED config

Step(r, todo) ==
  IF todo.call = None THEN Answer(r, todo.respond[1]) ELSE Issue(r, todo.call[1])

\* the event loop picks request r of the given endpoint, with a valid body
Dispatch(r, endpoint) ==
  /\ loop = 0
  /\ request[r].pc = "received"
  /\ request[r].endpoint = endpoint
  /\ Valid(endpoint, request[r].body)

\* request r is blocked in the external call `op`
Blocked(r, op) ==
  /\ loop = r
  /\ request[r].pc = "calling"
  /\ request[r].outbound[Len(request[r].outbound)].op = op

\* FastAPI: a body that fails validation is answered 422, the handler not run
RequestValidationError(r) ==
  /\ loop = 0
  /\ request[r].pc = "received"
  /\ ~ Valid(request[r].endpoint, request[r].body)
  /\ Answer(r, HTTPException(422, <<"validation error">>))

\* ------------------------------------------------------------ GET /health
\* mutant: reports the client as available without looking at it
HealthResponse_client_assumed ==
  [status |-> "healthy", aws_region |-> AWS_REGION,
   knowledge_base_id |-> KNOWLEDGE_BASE_ID, bedrock_available |-> TRUE]

HealthResponse ==
  [status |-> "healthy", aws_region |-> AWS_REGION,
   knowledge_base_id |-> KNOWLEDGE_BASE_ID, bedrock_available |-> bedrock_client]

health_check(r) ==
  /\ Dispatch(r, "health")
  /\ Answer(r, Ok(HealthResponse))

\* ------------------------------------------------- calls and their results
\* the result of a Python call: it raised e, or it returned v
Raised(e) == [exception |-> Some(e), value |-> None]
Returned(v) == [exception |-> None, value |-> Some(v)]
\* an exception of the AWS SDK with message m; str(e) is e.message
ClientError(m) == [type |-> "ClientError", message |-> m, http |-> None]
\* an HTTPException raised inside a handler's try block
HTTPError(resp) == [type |-> "HTTPException", message |-> "", http |-> Some(resp)]

\* the messages an SDK call may fail with
ErrorMessages == {"AccessDeniedException"}

\* ---------------------------------------------------- GET /knowledge-bases
\* one entry of knowledgeBaseSummaries
KbSummaryFull ==
  [knowledgeBaseId |-> Some("KB1"), name |-> Some("docs"),
   description |-> Some("product docs"), status |-> Some("ACTIVE")]
KbSummaryBare ==
  [knowledgeBaseId |-> None, name |-> None, description |-> None, status |-> None]

\* what bedrock_agent.list_knowledge_bases() may do
ListOutcomes ==
  {Raised(ClientError(m)) : m \in ErrorMessages}
    \cup {Returned([knowledgeBaseSummaries |-> None]),
          Returned([knowledgeBaseSummaries |-> Some(<<KbSummaryFull, KbSummaryBare>>)])}

\* BedrockKnowledgeBaseClient.list_knowledge_bases
client_list_knowledge_bases(boto) ==
  IF boto.exception # None
    THEN Returned(<<>>)
    ELSE Returned(Get(boto.value[1].knowledgeBaseSummaries, <<>>))

KnowledgeBaseInfo(kb) ==
  [knowledge_base_id |-> Get(kb.knowledgeBaseId, ""),
   name |-> Get(kb.name, "Unnamed"),
   description |-> kb.description,
   status |-> Get(kb.status, "Unknown")]

\* mutant: the `if not bedrock_client` check is missing
list_before_call_unguarded == Call([op |-> "list_knowledge_bases"])

\* list_knowledge_bases up to the call
list_before_call ==
  IF ~ bedrock_client
    THEN Respond(HTTPException(503, <<"Bedrock client not available">>))
    ELSE Call([op |-> "list_knowledge_bases"])

\* list_knowledge_bases from the call's result on
list_after_call(result) ==
  IF result.exception # None
    THEN HTTPException(500, <<"Failed to list knowledge bases: ",
                              result.exception[1].message>>)
    ELSE LET knowledge_bases == result.value[1]
         IN Ok([items |-> [i \in 1 .. Len(knowledge_bases) |->
                             KnowledgeBaseInfo(knowledge_bases[i])]])

list_knowledge_bases(r) ==
  /\ Dispatch(r, "list")
  /\ Step(r, list_before_call)

\* the call returns or raises, one of `outcomes`, and the handler runs to its end
list_knowledge_bases_returns(r, outcomes) ==
  /\ Blocked(r, "list_knowledge_bases")
  /\ \E boto \in outcomes :
       Finish(r, boto, list_after_call(client_list_knowledge_bases(boto)))

\* ----------------------------------------------- GET /knowledge-bases/{id}
\* the knowledgeBase record of a get_knowledge_base response
KbDetailEmpty ==
  [name |-> None, description |-> None, status |-> None, createdAt |-> None,
   updatedAt |-> None, roleArn |-> None, knowledgeBaseConfiguration |-> None]
KbDetailFull ==
  [name |-> Some("docs"), description |-> Some("product docs"),
   status |-> Some("ACTIVE"), createdAt |-> Some("2024-01-01"),
   updatedAt |-> Some("2024-02-01"), roleArn |-> Some("arn:role"),
   knowledgeBaseConfiguration |-> Some({<<"type", "VECTOR">>})]
KbDetailPartial == [KbDetailEmpty EXCEPT !.status = Some("CREATING")]

\* what bedrock_agent.get_knowledge_base(knowledgeBaseId=...) may do
InfoOutcomes ==
  {Raised(ClientError(m)) : m \in ErrorMessages}
    \cup {Returned([knowledgeBase |-> kb]) :
            kb \in {None, Some(KbDetailEmpty), Some(KbDetailFull), Some(KbDetailPartial)}}

\* BedrockKnowledgeBaseClient.get_knowledge_base_info: Optional[Dict]
client_get_knowledge_base_info(boto) ==
  IF boto.exception # None
    THEN Returned(None)
    ELSE Returned(boto.value[1].knowledgeBase)

\* Python's `not kb_info`: None, or a dict with no key
NotKbInfo(kb_info) == kb_info = None \/ kb_info[1] = KbDetailEmpty

info_before_call(knowledge_base_id) ==
  IF ~ bedrock_client
    THEN Respond(HTTPException(503, <<"Bedrock client not available">>))
    ELSE Call([op |-> "get_knowledge_base", knowledgeBaseId |-> knowledge_base_id])

\* the try block of get_knowledge_base_info, from the call's result on
info_try(knowledge_base_id, result) ==
  IF result.exception # None
    THEN result
    ELSE LET kb_info == result.value[1]
         IN IF NotKbInfo(kb_info)
              THEN Raised(HTTPError(HTTPException(404, <<"Knowledge base not found">>)))
              ELSE Returned(
                [knowledge_base_id |-> knowledge_base_id,
                 name |-> Get(kb_info[1].name, "Unknown"),
                 description |-> Get(kb_info[1].description, "No description"),
                 status |-> Get(kb_info[1].status, "Unknown"),
                 created_at |-> kb_info[1].createdAt,
                 updated_at |-> kb_info[1].updatedAt,
                 role_arn |-> kb_info[1].roleArn,
                 knowledge_base_configuration |->
                   Get(kb_info[1].knowledgeBaseConfiguration, {})])

\* mutant: the `except HTTPException: raise` clause is missing, so the 404
\* raised in the try block falls to `except Exception`
info_except_generic(tried) ==
  IF tried.exception = None
    THEN Ok(tried.value[1])
    ELSE HTTPException(500, <<"Failed to get knowledge base info: ",
                              tried.exception[1].message>>)

\* the except clauses of get_knowledge_base_info
info_except(tried) ==
  IF tried.exception = None
    THEN Ok(tried.value[1])
    ELSE IF tried.exception[1].type = "HTTPException"
           THEN tried.exception[1].http[1]
           ELSE HTTPException(500, <<"Failed to get knowledge base info: ",
                                     tried.exception[1].message>>)

info_after_call(knowledge_base_id, result) ==
  info_except(info_try(knowledge_base_id, result))

get_knowledge_base_info(r) ==
  /\ Dispatch(r, "info")
  /\ Step(r, info_before_call(request[r].body.path_id))

\* the call returns or raises, one of `outcomes`, and the handler runs to its end
get_knowledge_base_info_returns(r, outcomes) ==
  /\ Blocked(r, "get_knowledge_base")
  /\ \E boto \in outcomes :
       Finish(r, boto, info_after_call(request[r].body.path_id,
                                       client_get_knowledge_base_info(boto)))

\* ------------------------------------------------------ upstream records
EmptyContent == [text |-> None]
EmptyS3Location == [uri |-> None]
EmptyLocation == [type |-> None, s3Location |-> None]

ContentValues == {None, Some(EmptyContent), Some([text |-> Some("chunk text")])}
ScoreValues == {None, Some(87)}
S3LocationValues ==
  {None, Some(EmptyS3Location), Some([uri |-> Some("s3://bucket/key")])}
LocationValues ==
  {None} \cup {Some([type |-> t, s3Location |-> l]) :
                 t \in {None, Some("S3"), Some("WEB")}, l \in S3LocationValues}
MetadataValues == {None, Some({<<"page", "7">>})}

\* every retrievalResults record over the values above
RetrievalRecords ==
  [content : ContentValues, score : ScoreValues, location : LocationValues,
   metadata : MetadataValues]
\* every retrievedReferences entry over the values above
References ==
  [content : ContentValues, location : LocationValues, metadata : MetadataValues]

\* an S3-located record, a record with no location, and a web-located one
RecordS3 ==
  [content |-> Some([text |-> Some("chunk text")]), score |-> Some(87),
   location |-> Some([type |-> Some("S3"),
                      s3Location |-> Some([uri |-> Some("s3://bucket/key")])]),
   metadata |-> Some({<<"page", "7">>})]
RecordNoLocation ==
  [content |-> Some([text |-> Some("chunk text")]), score |-> None,
   location |-> None, metadata |-> None]
RecordWeb ==
  [content |-> None, score |-> Some(87),
   location |-> Some([type |-> Some("WEB"), s3Location |-> None]),
   metadata |-> None]
SampleRecords == {RecordS3, RecordNoLocation, RecordWeb}

DropScore(rec) ==
  [content |-> rec.content, location |-> rec.location, metadata |-> rec.metadata]
SampleReferences == {DropScore(rec) : rec \in SampleRecords}

\* ------------------------------------------------------------ POST /search
\* BedrockKnowledgeBaseClient.query_knowledge_base
client_query_knowledge_base(boto) ==
  IF boto.exception # None
    THEN Returned([retrievalResults |-> None])
    ELSE Returned(boto.value[1])

\* mutant: the URI is extracted whenever the location has one, whatever its type
SearchResult_any_type(result) ==
  LET content == Get(Get(result.content, EmptyContent).text, "No content available")
      score == Get(result.score, 0)
      location == Get(result.location, EmptyLocation)
      source_type == Get(location.type, "Unknown")
      source_location ==
        IF location.s3Location # None
          THEN Some(Get(location.s3Location[1].uri, "Unknown S3 location"))
          ELSE None
      metadata == Get(result.metadata, {})
  IN [content |-> content, score |-> score, source_type |-> source_type,
      source_location |-> source_location, metadata |-> metadata]

\* the body of the for loop of search_knowledge_base: one SearchResult
SearchResult(result) ==
  LET content == Get(Get(result.content, EmptyContent).text, "No content available")
      score == Get(result.score, 0)
      location == Get(result.location, EmptyLocation)
      source_type == Get(location.type, "Unknown")
      source_location ==
        IF source_type = "S3"
          THEN Some(Get(Get(location.s3Location, EmptyS3Location).uri,
                        "Unknown S3 location"))
          ELSE None
      metadata == Get(result.metadata, {})
  IN [content |-> content, score |-> score, source_type |-> source_type,
      source_location |-> source_location, metadata |-> metadata]

\* mutant: each result is inserted at the front of the list
RECURSIVE search_results_front(_)
search_results_front(retrieval_results) ==
  IF retrieval_results = <<>>
    THEN <<>>
    ELSE search_results_front(Tail(retrieval_results))
           \o <<SearchResult(Head(retrieval_results))>>

\* the for loop of search_knowledge_base
RECURSIVE search_results(_)
search_results(retrieval_results) ==
  IF retrieval_results = <<>>
    THEN <<>>
    ELSE <<SearchResult(Head(retrieval_results))>>
           \o search_results(Tail(retrieval_results))

\* request.knowledge_base_id or KNOWLEDGE_BASE_ID
EffectiveKbId(req) == OrDefault(req.knowledge_base_id, KNOWLEDGE_BASE_ID)

\* mutant: only `if not kb_id`, the placeholder is not compared
search_before_call_no_placeholder(req) ==
  IF ~ bedrock_client
    THEN Respond(HTTPException(503, <<"Bedrock client not available">>))
    ELSE LET kb_id == EffectiveKbId(req)
         IN IF Len(kb_id) = 0
              THEN Respond(HTTPException(400, <<"Knowledge base ID not configured">>))
              ELSE Call([op |-> "retrieve", knowledgeBaseId |-> kb_id,
                         query |-> req.query, numberOfResults |-> req.max_results])

\* search_knowledge_base up to the call
search_before_call(req) ==
  IF ~ bedrock_client
    THEN Respond(HTTPException(503, <<"Bedrock client not available">>))
    ELSE LET kb_id == EffectiveKbId(req)
         IN IF Len(kb_id) = 0 \/ kb_id = Placeholder
              THEN Respond(HTTPException(400, <<"Knowledge base ID not configured">>))
              ELSE Call([op |-> "retrieve", knowledgeBaseId |-> kb_id,
                         query |-> req.query, numberOfResults |-> req.max_results])

\* search_knowledge_base from the call's result on
search_after_call(req, result) ==
  IF result.exception # None
    THEN HTTPException(500, <<"Search failed: ", result.exception[1].message>>)
    ELSE LET results == result.value[1]
             retrieval_results == Get(results.retrievalResults, <<>>)
             found == search_results(retrieval_results)
         IN Ok([query |-> req.query,
                results |-> found,
                total_results |-> Len(found),
                knowledge_base_id |-> EffectiveKbId(req)])

\* mutant: the handler declares `global KNOWLEDGE_BASE_ID` and keeps the id the
\* request chose as the default of the requests after it
search_knowledge_base_remembers(r) ==
  /\ Dispatch(r, "search")
  /\ LET req == SearchRequest(request[r].body)
         todo == search_before_call(req)
     IN /\ request' =
             IF todo.call = None
               THEN [request EXCEPT ![r].pc = "done",
                                    ![r].response = Some(todo.respond[1])]
               ELSE [request EXCEPT ![r].pc = "calling",
                                    ![r].outbound = Append(@, todo.call[1])]
        /\ loop' = IF todo.call = None THEN loop ELSE r
        /\ KNOWLEDGE_BASE_ID' = EffectiveKbId(req)
  /\ UNCHANGED <<AWS_REGION, MODEL_ARN, bedrock_client>>

search_knowledge_base(r) ==
  /\ Dispatch(r, "search")
  /\ Step(r, search_before_call(SearchRequest(request[r].body)))

\* the call returns or raises, one of `outcomes`, and the handler runs to its end
search_knowledge_base_returns(r, outcomes) ==
  /\ Blocked(r, "retrieve")
  /\ \E boto \in outcomes :
       Finish(r, boto, search_after_call(SearchRequest(request[r].body),
                                         client_query_knowledge_base(boto)))

\* --------------------------------------------------------- POST /summarize
\* BedrockKnowledgeBaseClient.retrieve_and_generate
client_retrieve_and_generate(boto) ==
  IF boto.exception # None
    THEN Returned([output |-> None, citations |-> None])
    ELSE Returned(boto.value[1])

\* Python's truth value of a location dict: false when it has no key
Truthy(location) == location # EmptyLocation

\* the body of the inner for loop of summarize_with_knowledge_base: one Citation
Citation(ref) ==
  LET content == Get(Get(ref.content, EmptyContent).text, "No content")
      location == Get(ref.location, EmptyLocation)
      source_location ==
        IF Truthy(location) /\ location.type = Some("S3")
          THEN Some(Get(Get(location.s3Location, EmptyS3Location).uri,
                        "Unknown S3 location"))
          ELSE None
      metadata == Get(ref.metadata, {})
  IN [content |-> content, source_location |-> source_location,
      metadata |-> metadata]

\* the inner for loop: the citations of one group's references
RECURSIVE reference_citations(_)
reference_citations(references) ==
  IF references = <<>>
    THEN <<>>
    ELSE <<Citation(Head(references))>> \o reference_citations(Tail(references))

\* mutant: the citations list is reset for every group
RECURSIVE citations_of_last_group(_)
citations_of_last_group(citation_data) ==
  IF citation_data = <<>>
    THEN <<>>
    ELSE IF Tail(citation_data) = <<>>
           THEN reference_citations(Get(Head(citation_data).retrievedReferences, <<>>))
           ELSE citations_of_last_group(Tail(citation_data))

\* the outer for loop: the citations of all groups
RECURSIVE citations_of(_)
citations_of(citation_data) ==
  IF citation_data = <<>>
    THEN <<>>
    ELSE reference_citations(Get(Head(citation_data).retrievedReferences, <<>>))
           \o citations_of(Tail(citation_data))

\* str.split('/')
RECURSIVE Split(_)
Split(str) ==
  IF str = <<>>
    THEN << <<>> >>
    ELSE LET rest == Split(Tail(str))
         IN IF Head(str) = "/"
              THEN << <<>> >> \o rest
              ELSE << <<Head(str)>> \o rest[1] >> \o Tail(rest)

\* mutant: the segment after the first '/', split('/')[1]
model_used_second_segment(model_arn) ==
  IF \E i \in 1 .. Len(model_arn) : model_arn[i] = "/"
    THEN Split(model_arn)[2]
    ELSE model_arn

\* model_arn.split('/')[-1] if '/' in model_arn else model_arn
model_used(model_arn) ==
  IF \E i \in 1 .. Len(model_arn) : model_arn[i] = "/"
    THEN Split(model_arn)[Len(Split(model_arn))]
    ELSE model_arn

\* request.model_arn or MODEL_ARN
EffectiveModelArn(req) == OrDefault(req.model_arn, MODEL_ARN)

\* summarize_with_knowledge_base up to the call
summarize_before_call(req) ==
  IF ~ bedrock_client
    THEN Respond(HTTPException(503, <<"Bedrock client not available">>))
    ELSE LET kb_id == EffectiveKbId(req)
             model_arn == EffectiveModelArn(req)
         IN IF Len(kb_id) = 0 \/ kb_id = Placeholder
              THEN Respond(HTTPException(400, <<"Knowledge base ID not configured">>))
              ELSE Call([op |-> "retrieve_and_generate", knowledgeBaseId |-> kb_id,
                         query |-> req.query, modelArn |-> model_arn,
                         numberOfResults |-> req.max_results])

\* mutant: response['output']['text'] instead of the chained get: a missing key
\* raises KeyError inside the try block
summarize_after_call_subscript(req, result) ==
  IF result.exception # None
    THEN HTTPException(500, <<"Summarization failed: ", result.exception[1].message>>)
    ELSE LET response == result.value[1]
         IN IF response.output = None \/ response.output[1].text = None
              THEN HTTPException(500, <<"Summarization failed: ", "KeyError">>)
              ELSE Ok([query |-> req.query,
                       generated_response |-> response.output[1].text[1],
                       citations |-> citations_of(Get(response.citations, <<>>)),
                       knowledge_base_id |-> EffectiveKbId(req),
                       model_used |-> model_used(EffectiveModelArn(req))])

\* summarize_with_knowledge_base from the call's result on
summarize_after_call(req, result) ==
  IF result.exception # None
    THEN HTTPException(500, <<"Summarization failed: ", result.exception[1].message>>)
    ELSE LET response == result.value[1]
             output == Get(response.output, [text |-> None])
             generated_text == Get(output.text, "No response generated")
             citation_data == Get(response.citations, <<>>)
         IN Ok([query |-> req.query,
                generated_response |-> generated_text,
                citations |-> citations_of(citation_data),
                knowledge_base_id |-> EffectiveKbId(req),
                model_used |-> model_used(EffectiveModelArn(req))])

summarize_with_knowledge_base(r) ==
  /\ Dispatch(r, "summarize")
  /\ Step(r, summarize_before_call(SummarizeRequest(request[r].body)))

\* mutant: a call that raised is issued once more before the handler gives up
summarize_with_knowledge_base_retries(r, outcomes) ==
  /\ Blocked(r, "retrieve_and_generate")
  /\ \E boto \in outcomes :
       IF boto.exception # None /\ Len(request[r].outbound) < 2
         THEN Issue(r, request[r].outbound[1])
         ELSE Finish(r, boto, summarize_after_call(SummarizeRequest(request[r].body),
                                                   client_retrieve_and_generate(boto)))

\* the call returns or raises, one of `outcomes`, and the handler runs to its end
summarize_with_knowledge_base_returns(r, outcomes) ==
  /\ Blocked(r, "retrieve_and_generate")
  /\ \E boto \in outcomes :
       Finish(r, boto, summarize_after_call(SummarizeRequest(request[r].body),
                                            client_retrieve_and_generate(boto)))

\* ------------------------------------------------- what the service may do
\* bedrock_agent_runtime.retrieve(**params)
RetrieveOutcomes ==
  {Raised(ClientError(m)) : m \in ErrorMessages}
    \cup {Returned([retrievalResults |-> None]),
          Returned([retrievalResults |-> Some(<<RecordS3, RecordNoLocation>>)])}

\* one citation group of a retrieve_and_generate response
GroupTwoReferences ==
  [retrievedReferences |-> Some(<<DropScore(RecordS3), DropScore(RecordNoLocation)>>)]
GroupNoReferences == [retrievedReferences |-> None]

\* bedrock_agent_runtime.retrieve_and_generate(...)
GenerateOutcomes ==
  {Raised(ClientError(m)) : m \in ErrorMessages}
    \cup {Returned([output |-> None, citations |-> None]),
          Returned([output |-> Some([text |-> Some("answer")]),
                    citations |-> Some(<<GroupTwoReferences, GroupNoReferences>>)])}

\* the response has been sent; the slot serves the next request
Close(r) ==
  /\ request[r].pc = "done"
  /\ request' = [request EXCEPT ![r] = Idle]
  /\ UNCHANGED <<config, loop>>

Next ==
  \E r \in Req :
    \/ \E endpoint \in Endpoints : \E body \in Bodies(endpoint) :
         Receive(r, endpoint, body)
    \/ RequestValidationError(r)
    \/ health_check(r)
    \/ list_knowledge_bases(r)
    \/ list_knowledge_bases_returns(r, ListOutcomes)
    \/ get_knowledge_base_info(r)
    \/ get_knowledge_base_info_returns(r, InfoOutcomes)
    \/ search_knowledge_base(r)
    \/ search_knowledge_base_returns(r, RetrieveOutcomes)
    \/ summarize_with_knowledge_base(r)
    \/ summarize_with_knowledge_base_returns(r, GenerateOutcomes)
    \/ Close(r)

Spec == Init /\ [][Next]_vars

\* --------------------------------------- the normalizer, on every response
\* every retrieve response: no retrievalResults key, any list of at most
\* MaxRecords of the sample records, or a single record of any shape
RetrieveResponses ==
  {[retrievalResults |-> None]}
    \cup {[retrievalResults |-> Some(s)] : s \in SeqUpTo(SampleRecords, MaxRecords)}
    \cup {[retrievalResults |-> Some(<<rec>>)] : rec \in RetrievalRecords}

\* every citation group: no retrievedReferences key, or at most MaxRefs of the
\* sample references
CitationGroups ==
  {[retrievedReferences |-> None]}
    \cup {[retrievedReferences |-> Some(s)] : s \in SeqUpTo(SampleReferences, MaxRefs)}

OutputValues == {None, Some([text |-> None]), Some([text |-> Some("answer")])}

\* every retrieve_and_generate response: any output, and no citations key, at
\* most MaxGroups groups, or one group of a single reference of any shape
GenerateResponses ==
  [output : OutputValues,
   citations : {None} \cup {Some(s) : s \in SeqUpTo(CitationGroups, MaxGroups)}]
    \cup [output : OutputValues,
          citations : {Some(<<[retrievedReferences |-> Some(<<ref>>)]>>) :
                         ref \in References}]

AllRetrieveOutcomes ==
  {Raised(ClientError(m)) : m \in ErrorMessages}
    \cup {Returned(resp) : resp \in RetrieveResponses}
AllGenerateOutcomes ==
  {Raised(ClientError(m)) : m \in ErrorMessages}
    \cup {Returned(resp) : resp \in GenerateResponses}

\* a valid body that leaves every optional field out
PlainBody == [NoBody EXCEPT !.query = 3]

\* a configured service with a working client
InitNormalizer ==
  /\ Init
  /\ bedrock_client
  /\ KNOWLEDGE_BASE_ID = DefaultKnowledgeBaseId

\* one POST /search or POST /summarize at a time, answered by any response
NextNormalizer ==
  \/ \E endpoint \in {"search", "summarize"} : Receive(1, endpoint, PlainBody)
  \/ search_knowledge_base(1)
  \/ search_knowledge_base_returns(1, AllRetrieveOutcomes)
  \/ summarize_with_knowledge_base(1)
  \/ summarize_with_knowledge_base_returns(1, AllGenerateOutcomes)
  \/ Close(1)

SpecNormalizer == InitNormalizer /\ [][NextNormalizer]_vars

\* ------------------------------------------- the handlers, on every request
\* boundary values of the validated fields, every kind of override
AllQueryLengths ==
  {QueryMinLength - 1, QueryMinLength, QueryMaxLength, QueryMaxLength + 1}
AllMaxResults ==
  {None} \cup {Some(n) : n \in {MaxResultsGe - 1, MaxResultsGe,
                                SummarizeMaxResultsLe, SummarizeMaxResultsLe + 1,
                                SearchMaxResultsLe, SearchMaxResultsLe + 1}}
\* model identifiers: every string over a letter and '/' of at most MaxArnLen
ModelArns == SeqUpTo({"a", "/"}, MaxArnLen)

AllBodies(endpoint) ==
  IF endpoint = "search"
    THEN {[NoBody EXCEPT !.query = q, !.max_results = m, !.knowledge_base_id = k] :
            q \in AllQueryLengths, m \in AllMaxResults, k \in KbOverrides}
    ELSE {[NoBody EXCEPT !.query = q, !.max_results = m, !.knowledge_base_id = k,
                         !.model_arn = a] :
            q \in AllQueryLengths, m \in AllMaxResults, k \in KbOverrides,
            a \in Opt(ModelArns)}

\* any configuration, with a default model identifier with or without a '/'
InitRequests ==
  /\ AWS_REGION \in Regions
  /\ KNOWLEDGE_BASE_ID \in ConfiguredKbIds
  /\ MODEL_ARN \in {DefaultModelArn, <<"m">>}
  /\ bedrock_client \in BOOLEAN
  /\ request = [r \in Req |-> Idle]
  /\ loop = 0

\* one POST /search or POST /summarize at a time, with any body
NextRequests ==
  \/ \E endpoint \in {"search", "summarize"} : \E body \in AllBodies(endpoint) :
       Receive(1, endpoint, body)
  \/ RequestValidationError(1)
  \/ search_knowledge_base(1)
  \/ search_knowledge_base_returns(1, RetrieveOutcomes)
  \/ summarize_with_knowledge_base(1)
  \/ summarize_with_knowledge_base_returns(1, GenerateOutcomes)
  \/ Close(1)

SpecRequests == InitRequests /\ [][NextRequests]_vars

\* ================================================================ claims
IsDone(r) == request[r].pc = "done"
Response(r) == request[r].response[1]
Upstream(r) == request[r].upstream[1]
\* the external operation of request r raised
UpstreamRaised(r) == request[r].upstream # None /\ Upstream(r).exception # None
\* the external operation of request r returned a response
UpstreamReturned(r) == request[r].upstream # None /\ Upstream(r).exception = None

\* the effective knowledge-base id of a POST body: the override when it is a
\* non-empty string, else the configured default
ClaimedKbId(body) ==
  IF body.knowledge_base_id = None \/ body.knowledge_base_id = Some("")
    THEN KNOWLEDGE_BASE_ID
    ELSE body.knowledge_base_id[1]
KbIdRejected(body) == ClaimedKbId(body) = "" \/ ClaimedKbId(body) = Placeholder
IsPost(r) == request[r].endpoint \in {"search", "summarize"}

\* C1: whenever the external operation of a request raised, the response is a
\* 500 whose detail ends with the external error's message.
C1_UpstreamFailureIs500 ==
  \A r \in Req :
    IsDone(r) /\ UpstreamRaised(r) =>
      /\ Response(r).status = 500
      /\ Len(Response(r).detail) = 2
      /\ Response(r).detail[2] = Upstream(r).exception[1].message

\* C2 as stated: a valid POST /search or /summarize whose effective
\* knowledge-base id is unset or the placeholder is answered 400 and makes no
\* outbound call, whether or not the external client was constructed.
C2_PlaceholderAlways400 ==
  \A r \in Req :
    IsDone(r) /\ IsPost(r) /\ Valid(request[r].endpoint, request[r].body)
      /\ KbIdRejected(request[r].body) =>
        Response(r).status = 400 /\ request[r].outbound = <<>>

\* C2 as amended: such a request makes no outbound call; it is answered 400
\* when the external client was constructed and 503 when it was not.
C2_PlaceholderRejected ==
  \A r \in Req :
    IsPost(r) /\ Valid(request[r].endpoint, request[r].body)
      /\ KbIdRejected(request[r].body) =>
        /\ request[r].outbound = <<>>
        /\ request[r].pc # "calling"
        /\ IsDone(r) => Response(r).status = IF bedrock_client THEN 400 ELSE 503

C2_Witness ==
  \E r \in Req :
    /\ IsDone(r) /\ request[r].endpoint = "summarize"
    /\ request[r].body.knowledge_base_id = None
    /\ KNOWLEDGE_BASE_ID = Placeholder
    /\ bedrock_client
    /\ Response(r).status = 400
    /\ request[r].outbound = <<>>

\* the event loop takes up request r: validation, then the handler
Serve(r) ==
  \/ RequestValidationError(r)
  \/ health_check(r)
  \/ list_knowledge_bases(r)
  \/ get_knowledge_base_info(r)
  \/ search_knowledge_base(r)
  \/ summarize_with_knowledge_base(r)

\* C3: while the outbound call of one request is in progress, every other
\* request that has arrived can be taken up and answered.
C3_CallDoesNotBlockOthers ==
  \A r1, r2 \in Req :
    r1 # r2 /\ request[r1].pc = "calling" /\ request[r2].pc = "received" =>
      ENABLED Serve(r2)

\* the number of outbound calls the claim gives a request: none for
\* GET /health and for a request rejected by validation, by the missing client
\* or by the configuration check, one otherwise
ClaimedCalls(r) ==
  IF \/ request[r].endpoint = "health"
     \/ ~ Valid(request[r].endpoint, request[r].body)
     \/ ~ bedrock_client
     \/ IsPost(r) /\ KbIdRejected(request[r].body)
    THEN 0
    ELSE 1

\* C4: a request never has more than one outbound call; an answered request
\* has made exactly the claimed number, also when its call raised.
C4_AtMostOneOutboundCall ==
  \A r \in Req :
    /\ Len(request[r].outbound) <= 1
    /\ request[r].pc = "calling" => Len(request[r].outbound) = 1
    /\ IsDone(r) => Len(request[r].outbound) = ClaimedCalls(r)
    /\ IsDone(r) /\ Len(request[r].outbound) = 1 => request[r].upstream # None

C4_Witness ==
  \E r1, r2 \in Req :
    /\ IsDone(r1) /\ UpstreamRaised(r1) /\ Len(request[r1].outbound) = 1
    /\ IsDone(r2) /\ request[r2].endpoint = "search"
    /\ Response(r2).status = 400 /\ request[r2].outbound = <<>>

\* the lookup of GET /knowledge-bases/{id} answered with no knowledge-base
\* record: the knowledgeBase key is missing or holds an empty record
LookupYieldsNothing(r) ==
  /\ UpstreamReturned(r)
  /\ \/ Upstream(r).value[1].knowledgeBase = None
     \/ Upstream(r).value[1].knowledgeBase = Some(KbDetailEmpty)

\* C5: GET /knowledge-bases/{id} is answered 404, not 500, whenever the
\* external lookup yields no knowledge-base record.
C5_MissingKnowledgeBaseIs404 ==
  \A r \in Req :
    IsDone(r) /\ request[r].endpoint = "info" /\ LookupYieldsNothing(r) =>
      /\ Response(r).status = 404
      /\ Response(r).detail = <<"Knowledge base not found">>

C5_Witness ==
  \E r \in Req :
    /\ IsDone(r) /\ request[r].endpoint = "info"
    /\ UpstreamReturned(r) /\ Upstream(r).value[1].knowledgeBase = None
    /\ Response(r).status = 404

\* C6 as stated: every request to an endpoint other than GET /health is
\* answered 503, with no outbound call, when the client was not constructed.
C6_Always503WithoutClient ==
  \A r \in Req :
    IsDone(r) /\ request[r].endpoint # "health" /\ ~ bedrock_client =>
      Response(r).status = 503 /\ request[r].outbound = <<>>

\* C6 as amended: such a request makes no outbound call; it is answered 503
\* when its body passed validation and 422 when it did not.
C6_UnavailableWithoutClient ==
  \A r \in Req :
    request[r].endpoint \in Endpoints \ {"health"} /\ ~ bedrock_client =>
      /\ request[r].outbound = <<>>
      /\ request[r].pc # "calling"
      /\ IsDone(r) =>
           Response(r).status =
             IF Valid(request[r].endpoint, request[r].body) THEN 503 ELSE 422

C6_Witness ==
  \E r1, r2 \in Req :
    /\ ~ bedrock_client
    /\ IsDone(r1) /\ request[r1].endpoint = "info" /\ Response(r1).status = 503
    /\ IsDone(r2) /\ request[r2].endpoint = "search" /\ Response(r2).status = 503
    /\ request[r1].outbound = <<>> /\ request[r2].outbound = <<>>

\* C7: every answer of GET /health is a 200 carrying the configured region
\* and knowledge-base id, with bedrock_available true exactly when the
\* external client was constructed; a health request the event loop can take
\* up is always answered.
C7_HealthNeverFails ==
  \A r \in Req :
    /\ IsDone(r) /\ request[r].endpoint = "health" =>
         /\ Response(r).status = 200
         /\ Response(r).body # None
         /\ Response(r).body[1].aws_region = AWS_REGION
         /\ Response(r).body[1].knowledge_base_id = KNOWLEDGE_BASE_ID
         /\ Response(r).body[1].bedrock_available = bedrock_client
    /\ request[r].pc = "received" /\ request[r].endpoint = "health" /\ loop = 0 =>
         ENABLED health_check(r)

C7_Witness ==
  \E r \in Req :
    /\ IsDone(r) /\ request[r].endpoint = "health"
    /\ ~ bedrock_client
    /\ Response(r).status = 200
    /\ Response(r).body[1].bedrock_available = FALSE
    /\ Response(r).body[1].knowledge_base_id = Placeholder

\* the retrievalResults of the response request r's call returned
UpstreamRecords(r) == Upstream(r).value[1].retrievalResults[1]
SearchAnswered(r) ==
  /\ IsDone(r) /\ request[r].endpoint = "search"
  /\ UpstreamReturned(r)
  /\ Upstream(r).value[1].retrievalResults # None

\* C8: POST /search answers a retrieval response of n records with a list of
\* n results, result i being the normalization of record i, and total_results n.
C8_ResultsInOrder ==
  \A r \in Req :
    SearchAnswered(r) =>
      /\ Response(r).status = 200
      /\ Len(Response(r).body[1].results) = Len(UpstreamRecords(r))
      /\ \A i \in 1 .. Len(UpstreamRecords(r)) :
           Response(r).body[1].results[i] = SearchResult(UpstreamRecords(r)[i])
      /\ Response(r).body[1].total_results = Len(UpstreamRecords(r))

C8_Witness ==
  \E r \in Req :
    /\ SearchAnswered(r)
    /\ UpstreamRecords(r) = <<RecordS3, RecordNoLocation>>
    /\ Response(r).body[1].total_results = 2
    /\ Response(r).body[1].results[1].source_location = Some("s3://bucket/key")
    /\ Response(r).body[1].results[2].source_location = None
    /\ Response(r).body[1].results[2].source_type = "Unknown"

\* the references of one citation group
GroupReferences(group) == Get(group.retrievedReferences, <<>>)
\* the number of references in the groups before group g
RECURSIVE ReferencesBefore(_, _)
ReferencesBefore(groups, g) ==
  IF g = 1 THEN 0
  ELSE ReferencesBefore(groups, g - 1) + Len(GroupReferences(groups[g - 1]))

UpstreamGroups(r) == Upstream(r).value[1].citations[1]
SummarizeAnswered(r) ==
  /\ IsDone(r) /\ request[r].endpoint = "summarize"
  /\ UpstreamReturned(r)
  /\ Upstream(r).value[1].citations # None

\* C9: the citations of POST /summarize are the references of all citation
\* groups, groups in order and references in order within each group: as many
\* as the groups hold together, reference j of group g at place
\* (references before g) + j.
C9_CitationsFlattened ==
  \A r \in Req :
    SummarizeAnswered(r) =>
      LET groups == UpstreamGroups(r)
      IN /\ Response(r).status = 200
         /\ Len(Response(r).body[1].citations) =
              ReferencesBefore(groups, Len(groups) + 1)
         /\ \A g \in 1 .. Len(groups) :
              \A j \in 1 .. Len(GroupReferences(groups[g])) :
                Response(r).body[1].citations[ReferencesBefore(groups, g) + j]
                  = Citation(GroupReferences(groups[g])[j])

C9_Witness ==
  \E r \in Req :
    /\ SummarizeAnswered(r)
    /\ Len(UpstreamGroups(r)) = 2
    /\ UpstreamGroups(r)[1].retrievedReferences = Some(<<DropScore(RecordWeb)>>)
    /\ UpstreamGroups(r)[2].retrievedReferences
         = Some(<<DropScore(RecordS3), DropScore(RecordNoLocation)>>)
    /\ Len(Response(r).body[1].citations) = 3
    /\ Response(r).body[1].citations[2].source_location = Some("s3://bucket/key")

\* the location type and the nested URI of an upstream record, None if absent
LocationType(rec) == IF rec.location = None THEN None ELSE rec.location[1].type
LocationUri(rec) ==
  IF rec.location = None \/ rec.location[1].s3Location = None
    THEN None
    ELSE rec.location[1].s3Location[1].uri

\* C10: in a POST /search result, source_location is set exactly when the
\* record's location type is "S3"; it then is the nested URI, or
\* "Unknown S3 location" when the URI is absent, and source_type is "S3".
C10_SourceLocationOnlyForS3 ==
  \A r \in Req :
    SearchAnswered(r) /\ Response(r).status = 200 =>
      \A i \in 1 .. Len(UpstreamRecords(r)) :
        LET rec == UpstreamRecords(r)[i]
            result == Response(r).body[1].results[i]
        IN /\ result.source_location # None <=> LocationType(rec) = Some("S3")
           /\ LocationType(rec) = Some("S3") =>
                /\ result.source_type = "S3"
                /\ result.source_location =
                     IF LocationUri(rec) = None
                       THEN Some("Unknown S3 location")
                       ELSE LocationUri(rec)

C10_Witness ==
  \E r \in Req :
    /\ SearchAnswered(r)
    /\ Len(UpstreamRecords(r)) = 1
    /\ LocationType(UpstreamRecords(r)[1]) = Some("S3")
    /\ LocationUri(UpstreamRecords(r)[1]) = None
    /\ Response(r).body[1].results[1].source_location = Some("Unknown S3 location")
    /\ Response(r).body[1].results[1].source_type = "S3"

\* the effective model identifier of a POST /summarize body: the override when
\* it is a non-empty string, else the configured default
ClaimedModelArn(body) ==
  IF body.model_arn = None \/ body.model_arn = Some(<<>>)
    THEN MODEL_ARN
    ELSE body.model_arn[1]
\* the place of the last '/' of a string, 0 when it has none
LastSlash(str) ==
  LET slashes == {i \in 1 .. Len(str) : str[i] = "/"}
  IN IF slashes = {} THEN 0 ELSE CHOOSE i \in slashes : \A j \in slashes : j <= i
AfterLastSlash(str) == SubSeq(str, LastSlash(str) + 1, Len(str))

\* C13: model_used of a successful POST /summarize is what follows the last
\* '/' of the effective model identifier, the whole identifier when it has no '/'.
C13_ModelUsedIsLastSegment ==
  \A r \in Req :
    IsDone(r) /\ request[r].endpoint = "summarize" /\ Response(r).status = 200 =>
      Response(r).body[1].model_used
        = AfterLastSlash(ClaimedModelArn(request[r].body))

C13_Witness ==
  \E r \in Req :
    /\ IsDone(r) /\ request[r].endpoint = "summarize" /\ Response(r).status = 200
    /\ request[r].body.model_arn = Some(<<"/", "/", "a">>)
    /\ Response(r).body[1].model_used = <<"a">>

\* the result count a body asks for: max_results, 5 when it is left out
AskedMaxResults(body) == IF body.max_results = None THEN 5 ELSE body.max_results[1]
\* the bodies the claim has rejected
ClaimedRejected(endpoint, body) ==
  \/ body.query < 1
  \/ body.query > 1000
  \/ AskedMaxResults(body) < 1
  \/ AskedMaxResults(body) > (IF endpoint = "search" THEN 20 ELSE 10)

\* C14: a POST /search whose query length is outside 1..1000 or whose
\* max_results is outside 1..20, and a POST /summarize whose query length is
\* outside 1..1000 or whose max_results is outside 1..10, is rejected (422)
\* whatever its other fields, and never reaches the external service.
C14_InvalidBodyRejected ==
  \A r \in Req :
    IsPost(r) /\ ClaimedRejected(request[r].endpoint, request[r].body) =>
      /\ request[r].pc # "calling"
      /\ request[r].outbound = <<>>
      /\ IsDone(r) => Response(r).status = 422

C14_Witness ==
  \E r \in Req :
    /\ IsDone(r) /\ request[r].endpoint = "search"
    /\ request[r].body.query = 1000
    /\ request[r].body.max_results = Some(21)
    /\ request[r].body.knowledge_base_id = Some("KB2")
    /\ bedrock_client
    /\ Response(r).status = 422
    /\ request[r].outbound = <<>>

\* C17: the outbound call of a POST /search or /summarize carries the
\* effective knowledge-base id (the request's when a non-empty string, else
\* the configured default) with the request's query and max_results; a
\* request with a usable effective id makes that one call, and a successful
\* response echoes the effective id.
C17_EffectiveKbId ==
  \A r \in Req :
    IsPost(r) =>
      /\ request[r].outbound # <<>> =>
           /\ Len(request[r].outbound) = 1
           /\ request[r].outbound[1].knowledgeBaseId = ClaimedKbId(request[r].body)
           /\ request[r].outbound[1].query = request[r].body.query
           /\ request[r].outbound[1].numberOfResults = AskedMaxResults(request[r].body)
      /\ IsDone(r) /\ bedrock_client /\ ~ KbIdRejected(request[r].body)
           /\ ~ ClaimedRejected(request[r].endpoint, request[r].body) =>
             Len(request[r].outbound) = 1
      /\ IsDone(r) /\ Response(r).status = 200 =>
           Response(r).body[1].knowledge_base_id = ClaimedKbId(request[r].body)

C17_Witness ==
  \E r \in Req :
    /\ IsDone(r) /\ request[r].endpoint = "search"
    /\ request[r].body.knowledge_base_id = Some("")
    /\ request[r].body.max_results = Some(20)
    /\ KNOWLEDGE_BASE_ID = DefaultKnowledgeBaseId
    /\ Len(request[r].outbound) = 1
    /\ request[r].outbound[1].knowledgeBaseId = DefaultKnowledgeBaseId
    /\ request[r].outbound[1].numberOfResults = 20
    /\ Response(r).status = 200
    /\ Response(r).body[1].knowledge_base_id = DefaultKnowledgeBaseId

\* a reference read as a retrieval record with the same content, location
\* and metadata fields
AsRecord(ref) ==
  [content |-> ref.content, score |-> None, location |-> ref.location,
   metadata |-> ref.metadata]

\* C11: every citation of POST /summarize has the content, source_location
\* and metadata that POST /search gives a record with the same content,
\* location and metadata fields.
C11_CitationMappedAsSearchResult ==
  \A r \in Req :
    SummarizeAnswered(r) /\ Response(r).status = 200 =>
      LET groups == UpstreamGroups(r)
      IN \A g \in 1 .. Len(groups) :
           \A j \in 1 .. Len(GroupReferences(groups[g])) :
             LET citation ==
                   Response(r).body[1].citations[ReferencesBefore(groups, g) + j]
                 result == SearchResult(AsRecord(GroupReferences(groups[g])[j]))
             IN /\ citation.content = result.content
                /\ citation.source_location = result.source_location
                /\ citation.metadata = result.metadata

\* the text of a content field, None when the field or its text is absent
ContentText(rec) == IF rec.content = None THEN None ELSE rec.content[1].text

\* C12: POST /search and POST /summarize answer 200 to every upstream
\* response, whatever optional fields it lacks, and every absent field shows
\* as its default: the content sentinel, score 0, source type "Unknown",
\* source_location unset, metadata empty, the generated-text sentinel, and an
\* empty list for absent retrievalResults, citations or retrievedReferences.
C12_AbsentFieldsTakeDefaults ==
  \A r \in Req :
    /\ IsDone(r) /\ request[r].endpoint = "search" /\ UpstreamReturned(r) =>
         /\ Response(r).status = 200
         /\ Upstream(r).value[1].retrievalResults = None =>
              /\ Response(r).body[1].results = <<>>
              /\ Response(r).body[1].total_results = 0
         /\ Upstream(r).value[1].retrievalResults # None =>
              \A i \in 1 .. Len(UpstreamRecords(r)) :
                LET rec == UpstreamRecords(r)[i]
                    result == Response(r).body[1].results[i]
                IN /\ ContentText(rec) = None =>
                        result.content = "No content available"
                   /\ rec.score = None => result.score = 0
                   /\ LocationType(rec) = None =>
                        /\ result.source_type = "Unknown"
                        /\ result.source_location = None
                   /\ rec.metadata = None => result.metadata = {}
    /\ IsDone(r) /\ request[r].endpoint = "summarize" /\ UpstreamReturned(r) =>
         /\ Response(r).status = 200
         /\ \/ Upstream(r).value[1].output = None
            \/ Upstream(r).value[1].output[1].text = None
            => Response(r).body[1].generated_response = "No response generated"
         /\ Upstream(r).value[1].citations = None =>
              Response(r).body[1].citations = <<>>
         /\ Upstream(r).value[1].citations # None =>
              LET groups == UpstreamGroups(r)
              IN /\ Len(Response(r).body[1].citations)
                      = ReferencesBefore(groups, Len(groups) + 1)
                 /\ \A g \in 1 .. Len(groups) :
                      \A j \in 1 .. Len(GroupReferences(groups[g])) :
                        LET ref == GroupReferences(groups[g])[j]
                            citation ==
                              Response(r).body[1].citations[
                                ReferencesBefore(groups, g) + j]
                        IN /\ ContentText(ref) = None =>
                                citation.content = "No content"
                           /\ LocationType(ref) = None =>
                                citation.source_location = None
                           /\ ref.metadata = None => citation.metadata = {}

C12_Witness ==
  \E r \in Req :
    /\ IsDone(r) /\ request[r].endpoint = "summarize" /\ UpstreamReturned(r)
    /\ Upstream(r).value[1].output = Some([text |-> None])
    /\ Upstream(r).value[1].citations
         = Some(<<[retrievedReferences |->
                     Some(<<[content |-> None, location |-> None,
                             metadata |-> None]>>)]>>)
    /\ Response(r).status = 200
    /\ Response(r).body[1].generated_response = "No response generated"
    /\ Response(r).body[1].citations
         = <<[content |-> "No content", source_location |-> None, metadata |-> {}]>>

\* the external call of request r returns or raises and its handler ends
Returns(r) ==
  \/ list_knowledge_bases_returns(r, ListOutcomes)
  \/ get_knowledge_base_info_returns(r, InfoOutcomes)
  \/ search_knowledge_base_returns(r, RetrieveOutcomes)
  \/ summarize_with_knowledge_base_returns(r, GenerateOutcomes)

\* the bodies progress is checked on: one the validation accepts and, for the
\* POST endpoints, one it rejects
BodiesLive(endpoint) ==
  CASE endpoint \in {"search", "summarize"} -> {PlainBody, NoBody}
    [] endpoint = "info" -> {[NoBody EXCEPT !.path_id = DefaultKnowledgeBaseId]}
    [] OTHER -> {NoBody}

\* one configuration, with or without a client
InitLive ==
  /\ Init
  /\ AWS_REGION = DefaultRegion
  /\ KNOWLEDGE_BASE_ID = DefaultKnowledgeBaseId
  /\ MODEL_ARN = DefaultModelArn

NextLive ==
  \E r \in Req :
    \/ \E endpoint \in Endpoints : \E body \in BodiesLive(endpoint) :
         Receive(r, endpoint, body)
    \/ Serve(r)
    \/ Returns(r)
    \/ Close(r)

\* the service under an external service that answers every call and an event
\* loop that takes up every request that keeps waiting for it
SpecLive ==
  /\ InitLive
  /\ [][NextLive]_vars
  /\ \A r \in Req : WF_vars(Returns(r))
  /\ \A r \in Req : SF_vars(Serve(r))

\* C15: a request whose external call is in progress is answered once the
\* call returns or raises, and every request that has arrived is answered;
\* an answered request holds exactly one response, which is never replaced.
C15_EveryRequestAnsweredOnce ==
  /\ \A r \in Req : (request[r].pc = "calling") ~> IsDone(r)
  /\ \A r \in Req : (request[r].pc = "received") ~> IsDone(r)
  /\ [](\A r \in Req : request[r].response # None <=> IsDone(r))
  /\ [][\A r \in Req :
          IsDone(r) => request'[r] = request[r] \/ request'[r] = Idle]_vars

C15_Witness ==
  \E r1, r2 \in Req :
    /\ IsDone(r1) /\ UpstreamRaised(r1) /\ request[r1].response # None
    /\ IsDone(r2) /\ UpstreamReturned(r2) /\ Response(r2).status = 200

\* two requests that asked the same thing and whose calls, if any, the external
\* service answered alike
SameRequestSameAnswer(r1, r2) ==
  /\ IsDone(r1) /\ IsDone(r2)
  /\ request[r1].endpoint = request[r2].endpoint
  /\ request[r1].body = request[r2].body
  /\ request[r1].upstream = request[r2].upstream

\* C16: no step of any handler changes the region, the default knowledge-base
\* id, the default model identifier or the client handle; and two requests
\* with the same endpoint and body whose own calls were answered alike made the
\* same call and got the same response, whatever was served before or between.
C16_ConfigurationReadOnly ==
  /\ [][config' = config]_vars
  /\ [](\A r1, r2 \in Req :
          SameRequestSameAnswer(r1, r2) =>
            /\ request[r1].response = request[r2].response
            /\ request[r1].outbound = request[r2].outbound)

\* a request answered after a call while an equal request, answered earlier
\* from an equal upstream answer, is still held
C16_Witness ==
  \E r1, r2 \in Req :
    /\ r1 # r2
    /\ SameRequestSameAnswer(r1, r2)
    /\ UpstreamReturned(r1)
    /\ request[r1].endpoint = "search"
    /\ request[r1].body.knowledge_base_id = Some("KB2")
    /\ Response(r1).status = 200

====
